---- MODULE Spec2Model ----
(***************************************************************************)
(* typenum_alias: Const<N>, the conversions ToTypenum / ToConst and the    *)
(* operator impls on Const<N> that forward to typenum (src/src/lib.rs).    *)
(*                                                                         *)
(* Trait resolution is modelled by set-valued operators: the empty set     *)
(* means "no impl resolves", a singleton {x} means the associated type     *)
(* Output is x.  A Const<N> is represented by its parameter N, a typenum   *)
(* type by a record [kind, u] where u is the bit list of the UInt<..>      *)
(* chain, most significant bit first (UTerm is the empty list).            *)
(***************************************************************************)
EXTENDS Integers, Sequences, FiniteSets, TLC

VARIABLES L, R, op, out, ord, tin, tout

vars == <<L, R, op, out, ord, tin, tout>>

\* Largest operand / typenum magnitude explored besides the i32 extremes.
MaxMag == 18

\* Largest value of the supported range -16..=16 the claims speak about.
RangeMax == 16

I32Max == 2147483647

I32Min == -2147483647 - 1

Supported == (-RangeMax)..RangeMax

Operands == ((-MaxMag)..MaxMag) \cup {I32Min, I32Max}

(***************************************************************************)
(* Integer helpers                                                         *)
(***************************************************************************)
AbsInt(n) == IF n < 0 THEN -n ELSE n

MaxInt(a, b) == IF a >= b THEN a ELSE b

MinInt(a, b) == IF a <= b THEN a ELSE b

\* quotient rounded toward zero
TruncDiv(a, b) ==
    IF (a >= 0) = (b > 0) THEN AbsInt(a) \div AbsInt(b)
    ELSE -(AbsInt(a) \div AbsInt(b))

RECURSIVE GcdNat(_, _)
GcdNat(a, b) == IF b = 0 THEN a ELSE GcdNat(b, a % b)

FloorSqrt(n) == CHOOSE m \in 0..n : m * m <= n /\ (m + 1) * (m + 1) > n

RECURSIVE FloorLog2(_)
FloorLog2(n) == IF n <= 1 THEN 0 ELSE 1 + FloorLog2(n \div 2)

(***************************************************************************)
(* typenum types                                                           *)
(***************************************************************************)
\* UInt<UInt<UTerm, B1>, B0> ... as the list of its bits
RECURSIVE UBits(_)
UBits(n) == IF n = 0 THEN << >> ELSE Append(UBits(n \div 2), n % 2)

RECURSIVE UVal(_)
UVal(u) ==
    IF u = << >> THEN 0
    ELSE 2 * UVal(SubSeq(u, 1, Len(u) - 1)) + u[Len(u)]

Z0 == [kind |-> "Z0", u |-> << >>]

PInt(u) == [kind |-> "PInt", u |-> u]

NInt(u) == [kind |-> "NInt", u |-> u]

UInt(u) == [kind |-> "UInt", u |-> u]

\* the aliases typenum::consts::P<num>, N<num>, U<num>
PAlias(num) == PInt(UBits(num))

NAlias(num) == NInt(UBits(num))

UAlias(num) == UInt(UBits(num))

IsInteger(t) == t.kind \in {"Z0", "PInt", "NInt"}

\* Integer::to_i32
ToI32(t) ==
    CASE t.kind = "PInt" -> UVal(t.u)
      [] t.kind = "NInt" -> -UVal(t.u)
      [] OTHER -> 0

\* the typenum integer of value v
TInt(v) ==
    IF v = 0 THEN Z0 ELSE IF v > 0 THEN PAlias(v) ELSE NAlias(-v)

TypenumInputs ==
    {Z0} \cup {PAlias(n) : n \in 1..MaxMag} \cup {NAlias(n) : n \in 1..MaxMag}
         \cup {UAlias(n) : n \in 0..MaxMag}

(***************************************************************************)
(* typenum's type operators on Z0 / PInt / NInt (the traits lib.rs         *)
(* forwards to).  {} = the trait is not implemented for these operands.    *)
(* typenum is an external crate: these follow its impls in int.rs, uint.rs *)
(* and type_operators.rs, case by case on the kinds of the operands.       *)
(***************************************************************************)
\* Cmp on the unsigned magnitudes
UCmp(ul, ur) ==
    IF UVal(ul) < UVal(ur) THEN "Less"
    ELSE IF UVal(ul) = UVal(ur) THEN "Equal" ELSE "Greater"

\* <A as Cmp<B>>::Output
TnCmp(a, b) ==
    IF ~(IsInteger(a) /\ IsInteger(b)) THEN {}
    ELSE CASE a.kind = "Z0" /\ b.kind = "Z0" -> {"Equal"}
           [] a.kind = "Z0" /\ b.kind = "PInt" -> {"Less"}
           [] a.kind = "Z0" /\ b.kind = "NInt" -> {"Greater"}
           [] a.kind = "PInt" /\ b.kind = "Z0" -> {"Greater"}
           [] a.kind = "NInt" /\ b.kind = "Z0" -> {"Less"}
           [] a.kind = "PInt" /\ b.kind = "NInt" -> {"Greater"}
           [] a.kind = "NInt" /\ b.kind = "PInt" -> {"Less"}
           [] a.kind = "PInt" /\ b.kind = "PInt" -> {UCmp(a.u, b.u)}
           [] a.kind = "NInt" /\ b.kind = "NInt" -> {UCmp(b.u, a.u)}

\* <A as Neg>::Output
TnNeg(a) ==
    CASE a.kind = "Z0" -> {Z0}
      [] a.kind = "PInt" -> {NInt(a.u)}
      [] a.kind = "NInt" -> {PInt(a.u)}
      [] OTHER -> {}

\* <A as Add<B>>::Output
TnAdd(a, b) ==
    IF ~(IsInteger(a) /\ IsInteger(b)) THEN {}
    ELSE CASE a.kind = "Z0" -> {b}
           [] b.kind = "Z0" -> {a}
           [] a.kind = b.kind -> {[kind |-> a.kind, u |-> UBits(UVal(a.u) + UVal(b.u))]}
           [] OTHER ->
                \* PrivateIntegerAdd, selected by comparing the magnitudes
                LET c == UCmp(a.u, b.u) IN
                CASE c = "Equal" -> {Z0}
                  [] c = "Greater" -> {[kind |-> a.kind, u |-> UBits(UVal(a.u) - UVal(b.u))]}
                  [] c = "Less" -> {[kind |-> b.kind, u |-> UBits(UVal(b.u) - UVal(a.u))]}

\* <A as Sub<B>>::Output
TnSub(a, b) ==
    IF ~(IsInteger(a) /\ IsInteger(b)) THEN {}
    ELSE UNION {TnAdd(a, nb) : nb \in TnNeg(b)}

\* <A as Mul<B>>::Output
TnMul(a, b) ==
    IF ~(IsInteger(a) /\ IsInteger(b)) THEN {}
    ELSE IF a.kind = "Z0" \/ b.kind = "Z0" THEN {Z0}
    ELSE {[kind |-> IF a.kind = b.kind THEN "PInt" ELSE "NInt",
           u |-> UBits(UVal(a.u) * UVal(b.u))]}

\* <A as Div<B>>::Output: no impl for a Z0 divisor, quotient rounded toward zero
TnDiv(a, b) ==
    IF ~(IsInteger(a) /\ IsInteger(b)) THEN {}
    ELSE IF b.kind = "Z0" THEN {}
    ELSE IF a.kind = "Z0" THEN {Z0}
    ELSE LET c == UCmp(a.u, b.u)
             k == IF a.kind = b.kind THEN "PInt" ELSE "NInt" IN
         CASE c = "Less" -> {Z0}
           [] c = "Equal" -> {[kind |-> k, u |-> UBits(1)]}
           [] c = "Greater" -> {[kind |-> k, u |-> UBits(UVal(a.u) \div UVal(b.u))]}

\* <A as Rem<B>>::Output: no impl for a Z0 divisor, sign of the dividend
TnRem(a, b) ==
    IF ~(IsInteger(a) /\ IsInteger(b)) THEN {}
    ELSE IF b.kind = "Z0" THEN {}
    ELSE IF a.kind = "Z0" THEN {Z0}
    ELSE LET r == UVal(a.u) % UVal(b.u) IN
         IF r = 0 THEN {Z0} ELSE {[kind |-> a.kind, u |-> UBits(r)]}

\* <A as PartialDiv<B>>::Output: A: Div<B> + Rem<B, Output = Z0>
TnPartialDiv(a, b) ==
    IF TnRem(a, b) = {Z0} THEN TnDiv(a, b) ELSE {}

\* <A as Max<B>>::Output
TnMax(a, b) ==
    IF ~(IsInteger(a) /\ IsInteger(b)) THEN {}
    ELSE IF TnCmp(a, b) = {"Less"} THEN {b} ELSE {a}

\* <A as Min<B>>::Output
TnMin(a, b) ==
    IF ~(IsInteger(a) /\ IsInteger(b)) THEN {}
    ELSE IF TnCmp(a, b) = {"Greater"} THEN {b} ELSE {a}

\* <A as Gcd<B>>::Output: never negative, gcd(0, x) = |x|
TnGcd(a, b) ==
    IF ~(IsInteger(a) /\ IsInteger(b)) THEN {}
    ELSE LET g == GcdNat(UVal(a.u), UVal(b.u)) IN
         IF g = 0 THEN {Z0} ELSE {PInt(UBits(g))}

\* <A as Abs>::Output
TnAbs(a) ==
    CASE a.kind = "Z0" -> {Z0}
      [] a.kind = "PInt" -> {a}
      [] a.kind = "NInt" -> TnNeg(a)
      [] OTHER -> {}

\* <A as SquareRoot>::Output: implemented for the unsigned UInt/UTerm only
TnSquareRoot(a) ==
    IF a.kind = "UInt" THEN {UInt(UBits(FloorSqrt(UVal(a.u))))} ELSE {}

\* <A as Logarithm2>::Output: implemented for the non-zero unsigned UInt only
TnLogarithm2(a) ==
    IF a.kind = "UInt" /\ a.u # << >> THEN {UInt(UBits(FloorLog2(UVal(a.u))))}
    ELSE {}

\* Output of the named binary trait
BinaryTrait(trait, a, b) ==
    CASE trait = "Add" -> TnAdd(a, b)
      [] trait = "Sub" -> TnSub(a, b)
      [] trait = "Mul" -> TnMul(a, b)
      [] trait = "Div" -> TnDiv(a, b)
      [] trait = "Max" -> TnMax(a, b)
      [] trait = "Min" -> TnMin(a, b)
      [] trait = "PartialDiv" -> TnPartialDiv(a, b)
      [] trait = "Gcd" -> TnGcd(a, b)

\* Output of the named unary trait
UnaryTrait(trait, a) ==
    CASE trait = "Neg" -> TnNeg(a)
      [] trait = "Abs" -> TnAbs(a)
      [] trait = "Logarithm2" -> TnLogarithm2(a)
      [] trait = "SquareRoot" -> TnSquareRoot(a)

\* typenum::operator_aliases: Sum<A, B> = <A as Add<B>>::Output, ...
AliasTrait(alias) ==
    CASE alias = "Sum" -> "Add"
      [] alias = "Diff" -> "Sub"
      [] alias = "Prod" -> "Mul"
      [] alias = "Quot" -> "Div"
      [] alias = "Maximum" -> "Max"
      [] alias = "Minimum" -> "Min"
      [] alias = "PartialQuot" -> "PartialDiv"
      [] alias = "Gcf" -> "Gcd"
      [] alias = "Negate" -> "Neg"
      [] alias = "AbsVal" -> "Abs"
      [] alias = "Log2" -> "Logarithm2"
      [] alias = "Sqrt" -> "SquareRoot"

(***************************************************************************)
(* src/src/lib.rs: the conversions                                         *)
(***************************************************************************)
\* variant: the enumeration runs on to 32
const_conversion_nums_wide == 1..32

\* the literals handed to const_conversion!
const_conversion_nums == {1, 2, 3, 4, 5, 6, 7, 8, 9, 10, 11, 12, 13, 14, 15, 16}

\* impl ToTypenum for Const<0>, Const<$num>, Const<-$num>
ToTypenum(n) ==
    (IF n = 0 THEN {Z0} ELSE {})
    \cup {PAlias(num) : num \in {m \in const_conversion_nums : m = n}}
    \cup {NAlias(num) : num \in {m \in const_conversion_nums : -m = n}}

\* variant: the N<$num> impl names Const<$num> instead of Const<-$num>
ToConst_unsigned(t) ==
    (IF t = Z0 THEN {0} ELSE {})
    \cup {num : num \in {m \in const_conversion_nums : PAlias(m) = t}}
    \cup {num : num \in {m \in const_conversion_nums : NAlias(m) = t}}

\* variant: the impl for Z0 is missing
ToConst_nozero(t) ==
    {num : num \in {m \in const_conversion_nums : PAlias(m) = t}}
    \cup {-num : num \in {m \in const_conversion_nums : NAlias(m) = t}}

\* impl ToConst for Z0, P<$num>, N<$num>
ToConst(t) ==
    (IF t = Z0 THEN {0} ELSE {})
    \cup {num : num \in {m \in const_conversion_nums : PAlias(m) = t}}
    \cup {-num : num \in {m \in const_conversion_nums : NAlias(m) = t}}

\* type Typenum<N> = <N as ToTypenum>::Output
Typenum(n) == ToTypenum(n)

\* type Constant<T> = <T as ToConst>::Output
Constant(t) == ToConst(t)

(***************************************************************************)
(* src/src/lib.rs: the forwarding impls                                    *)
(***************************************************************************)
\* variant: the Sub row names the alias Sum
BinaryRows_subsum ==
    {<<"Add", "Sum">>, <<"Sub", "Sum">>, <<"Mul", "Prod">>, <<"Div", "Quot">>,
     <<"Max", "Maximum">>, <<"Min", "Minimum">>,
     <<"PartialDiv", "PartialQuot">>, <<"Gcd", "Gcf">>}

\* the ($op, $out) rows handed to impl_binary_ops_for_const!
BinaryRows ==
    {<<"Add", "Sum">>, <<"Sub", "Diff">>, <<"Mul", "Prod">>, <<"Div", "Quot">>,
     <<"Max", "Maximum">>, <<"Min", "Minimum">>,
     <<"PartialDiv", "PartialQuot">>, <<"Gcd", "Gcf">>}

\* variant: the Abs row names the alias Negate
UnaryRows_absneg ==
    {<<"Neg", "Negate">>, <<"Abs", "Negate">>, <<"Logarithm2", "Log2">>,
     <<"SquareRoot", "Sqrt">>}

\* the ($op, $out) rows handed to impl_unary_ops_for_const!
UnaryRows ==
    {<<"Neg", "Negate">>, <<"Abs", "AbsVal">>, <<"Logarithm2", "Log2">>,
     <<"SquareRoot", "Sqrt">>}

\* variant: the bounds and the Output name the operands in the order R, L
BinaryForward_swapped(trait, l, r) ==
    UNION {
      UNION {
        UNION {
          IF BinaryTrait(row[1], tr, tl) = {} THEN {}
          ELSE UNION {Constant(o) : o \in BinaryTrait(AliasTrait(row[2]), tr, tl)}
          : tr \in Typenum(r)}
        : tl \in Typenum(l)}
      : row \in {rw \in BinaryRows : rw[1] = trait}}

\* impl $op<Const<R>> for Const<L>: Output of the impl, {} when a bound fails
BinaryForward(trait, l, r) ==
    UNION {
      UNION {
        UNION {
          IF BinaryTrait(row[1], tl, tr) = {} THEN {}
          ELSE UNION {Constant(o) : o \in BinaryTrait(AliasTrait(row[2]), tl, tr)}
          : tr \in Typenum(r)}
        : tl \in Typenum(l)}
      : row \in {rw \in BinaryRows : rw[1] = trait}}

\* impl $op for Const<N>: Output of the impl, {} when a bound fails
UnaryForward(trait, n) ==
    UNION {
      UNION {
        IF UnaryTrait(row[1], tn) = {} THEN {}
        ELSE UNION {Constant(o) : o \in UnaryTrait(AliasTrait(row[2]), tn)}
        : tn \in Typenum(n)}
      : row \in {rw \in UnaryRows : rw[1] = trait}}

\* variant: the comparison names the operands in the order R, L
CmpForward_swapped(l, r) ==
    UNION {UNION {TnCmp(tr, tl) : tr \in Typenum(r)} : tl \in Typenum(l)}

\* impl Cmp<Const<R>> for Const<L>: Output is typenum's ordering itself
CmpForward(l, r) ==
    UNION {UNION {TnCmp(tl, tr) : tr \in Typenum(r)} : tl \in Typenum(l)}

(***************************************************************************)
(* State machine: the operands Const<L>, Const<R> are fixed by Init; one   *)
(* action resolves one operation on them and records its Output.  A        *)
(* resolved Output is a type and never changes afterwards, so each         *)
(* behaviour is a single resolution (op = "none" before it).               *)
(***************************************************************************)
TypeOK ==
    /\ L \in Operands
    /\ R \in Operands
    /\ op \in STRING
    /\ out \subseteq Int
    /\ ord \subseteq {"Less", "Equal", "Greater"}
    /\ tin \in TypenumInputs
    /\ tout \subseteq TypenumInputs

Init ==
    /\ L \in Operands
    /\ R \in Operands
    /\ op = "none"
    /\ out = {}
    /\ ord = {}
    /\ tin = Z0
    /\ tout = {}

\* shared shape of the operations whose Output is a Const
Resolve(name, result) ==
    /\ op = "none"
    /\ op' = name
    /\ out' = result
    /\ ord' = {}
    /\ tin' = Z0
    /\ tout' = {}
    /\ UNCHANGED <<L, R>>

add == Resolve("Add", BinaryForward("Add", L, R))

sub == Resolve("Sub", BinaryForward("Sub", L, R))

mul == Resolve("Mul", BinaryForward("Mul", L, R))

div == Resolve("Div", BinaryForward("Div", L, R))

max == Resolve("Max", BinaryForward("Max", L, R))

min == Resolve("Min", BinaryForward("Min", L, R))

partial_div == Resolve("PartialDiv", BinaryForward("PartialDiv", L, R))

Gcd == Resolve("Gcd", BinaryForward("Gcd", L, R))

neg == Resolve("Neg", UnaryForward("Neg", L))

Abs == Resolve("Abs", UnaryForward("Abs", L))

Logarithm2 == Resolve("Logarithm2", UnaryForward("Logarithm2", L))

SquareRoot == Resolve("SquareRoot", UnaryForward("SquareRoot", L))

compare ==
    /\ op = "none"
    /\ op' = "Cmp"
    /\ ord' = CmpForward(L, R)
    /\ out' = {}
    /\ tin' = Z0
    /\ tout' = {}
    /\ UNCHANGED <<L, R>>

\* Typenum<Const<L>>
TypenumOf ==
    /\ op = "none"
    /\ op' = "Typenum"
    /\ tout' = Typenum(L)
    /\ out' = {}
    /\ ord' = {}
    /\ tin' = Z0
    /\ UNCHANGED <<L, R>>

\* Constant<T> for a typenum type T
ConstantOf ==
    \E t \in TypenumInputs :
        /\ op = "none"
        /\ op' = "Constant"
        /\ tin' = t
        /\ out' = Constant(t)
        /\ ord' = {}
        /\ tout' = {}
        /\ UNCHANGED <<L, R>>

Next ==
    \/ add
    \/ sub
    \/ mul
    \/ div
    \/ max
    \/ min
    \/ partial_div
    \/ Gcd
    \/ compare
    \/ neg
    \/ Abs
    \/ Logarithm2
    \/ SquareRoot
    \/ TypenumOf
    \/ ConstantOf

Spec == Init /\ [][Next]_vars

(***************************************************************************)
(* Properties                                                              *)
(***************************************************************************)
\* the canonical typenum integers Z0, P1..P16, N1..N16
Canonical == {TInt(n) : n \in Supported}

\* C1: for every N in -16..=16 ToTypenum of Const<N> is the canonical typenum
\* integer of N and ToConst of it is Const<N> again; ToConst of a canonical
\* typenum integer is the Const of its value and ToTypenum of that is the same
\* typenum integer; distinct N have distinct typenum types and distinct
\* typenum types have distinct N.
C1_RoundTrip ==
    /\ (op = "Typenum" /\ L \in Supported) =>
          /\ tout = {TInt(L)}
          /\ \A t \in tout : Constant(t) = {L}
          /\ (R \in Supported /\ R # L) => tout \cap Typenum(R) = {}
    /\ (op = "Constant" /\ tin \in Canonical) =>
          /\ out = {ToI32(tin)}
          /\ \A n \in out : Typenum(n) = {tin}
    /\ (op = "Constant" /\ out # {}) =>
          \A t \in TypenumInputs \ {tin} : Constant(t) \cap out = {}

C1_Witness == op = "Constant" /\ tin = NAlias(16) /\ out = {-16}

\* the exact integer function of Add, Sub, Mul
Exact(name, l, r) ==
    CASE name = "Add" -> l + r
      [] name = "Sub" -> l - r
      [] name = "Mul" -> l * r

\* C2: for L, R in -16..=16 a defined Add, Sub or Mul of Const<L>, Const<R>
\* has Output Const<f(L,R)> for the exact sum, difference or product, and no
\* other value.
C2_ArithmeticExact ==
    (op \in {"Add", "Sub", "Mul"} /\ L \in Supported /\ R \in Supported) =>
        \A v \in out : v = Exact(op, L, R)

C2_Witness == op = "Sub" /\ L = 10 /\ R = 15 /\ out = {-5}

\* C3: for L, R in -16..=16 Add, Sub and Mul are undefined exactly when the
\* exact result lies outside -16..=16.
C3_RangeBoundary ==
    (op \in {"Add", "Sub", "Mul"} /\ L \in Supported /\ R \in Supported) =>
        (out = {} <=> Exact(op, L, R) \notin Supported)

C3_Witness == op = "Add" /\ L = 16 /\ R = 16 /\ out = {}

\* C4: for every L in -16..=16 Div and PartialDiv of Const<L> by Const<0>
\* are undefined.
C4_DivByZero ==
    (op \in {"Div", "PartialDiv"} /\ L \in Supported /\ R = 0) => out = {}

C4_Witness == op = "Div" /\ L = 5 /\ R = 0 /\ out = {}

\* C5: for L, R in -16..=16 Cmp of Const<L> against Const<R> is defined and
\* is Less iff L < R, Equal iff L = R, Greater iff L > R.
C5_Compare ==
    (op = "Cmp" /\ L \in Supported /\ R \in Supported) =>
        ord = {IF L < R THEN "Less" ELSE IF L = R THEN "Equal" ELSE "Greater"}

C5_Witness == op = "Cmp" /\ L = -2 /\ R = 0 /\ ord = {"Less"}

BinaryNames == {"Add", "Sub", "Mul", "Div", "Max", "Min", "PartialDiv", "Gcd"}

UnaryNames == {"Neg", "Abs", "Logarithm2", "SquareRoot"}

\* C6: a Const<N> with N outside -16..=16 has no ToTypenum impl, and every
\* forwarded operation with such a Const as an operand is undefined.
C6_Unsupported ==
    /\ (op = "Typenum" /\ L \notin Supported) => tout = {}
    /\ (op \in BinaryNames /\ (L \notin Supported \/ R \notin Supported)) =>
          out = {}
    /\ (op = "Cmp" /\ (L \notin Supported \/ R \notin Supported)) => ord = {}
    /\ (op \in UnaryNames /\ L \notin Supported) => out = {}

C6_Witness == op = "Sub" /\ L = 17 /\ R = 1 /\ out = {}

\* C7: Neg of Const<0> is Const<0>, and for every N in -16..=16 both
\* Const<0> + Const<N> and Const<N> + Const<0> are Const<N>.
C7_Zero ==
    /\ (op = "Neg" /\ L = 0) => out = {0}
    /\ (op = "Add" /\ L = 0 /\ R \in Supported) => out = {R}
    /\ (op = "Add" /\ R = 0 /\ L \in Supported) => out = {L}

C7_Witness == op = "Add" /\ L = 0 /\ R = -16 /\ out = {-16}

Divides(r, l) == AbsInt(l) % AbsInt(r) = 0

\* C8 as stated: for L in -16..=16 and nonzero R in -16..=16, Div and
\* PartialDiv are both undefined when R does not divide L, and both yield
\* Const<L/R> when it does.
C8_Original ==
    (op \in {"Div", "PartialDiv"} /\ L \in Supported /\ R \in Supported /\ R # 0) =>
        IF Divides(R, L) THEN out = {TruncDiv(L, R)} ELSE out = {}

\* C8 amended: for L in -16..=16 and nonzero R in -16..=16, when R divides L
\* both Div and PartialDiv yield Const<L/R>; when it does not, PartialDiv is
\* undefined and Div yields the Const of the quotient rounded toward zero.
C8_Amended ==
    (op \in {"Div", "PartialDiv"} /\ L \in Supported /\ R \in Supported /\ R # 0) =>
        IF Divides(R, L) \/ op = "Div" THEN out = {TruncDiv(L, R)} ELSE out = {}

C8_Witness == op = "Div" /\ L = -7 /\ R = 2 /\ out = {-3}

\* C9 as stated: SquareRoot and Logarithm2 of Const<N> yield
\* Const<floor(sqrt N)>, Const<floor(log2 N)> for N in 1..=16 and are
\* undefined for N in -16..=0.
C9_SqrtLog2 ==
    /\ (op = "SquareRoot" /\ L \in 1..RangeMax) => out = {FloorSqrt(L)}
    /\ (op = "Logarithm2" /\ L \in 1..RangeMax) => out = {FloorLog2(L)}
    /\ (op \in {"SquareRoot", "Logarithm2"} /\ L \in (-RangeMax)..0) => out = {}

\* C10: for L, R in -16..=16 Max, Min, Gcd, Neg and Abs are always defined,
\* yield max(L,R), min(L,R), the non-negative gcd(L,R), -L and |L|, each in
\* -16..=16, and Neg applied to the Output of Neg is Const<L> again.
C10_Total ==
    /\ (op = "Max" /\ L \in Supported /\ R \in Supported) => out = {MaxInt(L, R)}
    /\ (op = "Min" /\ L \in Supported /\ R \in Supported) => out = {MinInt(L, R)}
    /\ (op = "Gcd" /\ L \in Supported /\ R \in Supported) =>
          out = {GcdNat(AbsInt(L), AbsInt(R))}
    /\ (op = "Neg" /\ L \in Supported) =>
          /\ out = {-L}
          /\ \A v \in out : UnaryForward("Neg", v) = {L}
    /\ (op = "Abs" /\ L \in Supported) => out = {AbsInt(L)}
    /\ (op \in {"Max", "Min", "Gcd", "Neg", "Abs"} /\ L \in Supported
            /\ (R \in Supported \/ op \in {"Neg", "Abs"})) =>
          out \subseteq Supported

C10_Witness == op = "Gcd" /\ L = -12 /\ R = 8 /\ out = {4}

====
